---- MODULE Spec2Model ----
(***************************************************************************)
(* Model of tabby-agent's StdIO class (clients/tabby-agent/src/StdIO.ts):  *)
(* line framing of stdin chunks, JSON decoding, request dispatch onto the  *)
(* bound agent, tracking of ongoing requests, cancellation, and the        *)
(* forwarding of agent events to stdout.                                   *)
(*                                                                         *)
(* The JavaScript job queue is modelled explicitly: `jobs' is the promise  *)
(* (microtask) queue; stdin `data' callbacks run only when it is empty,    *)
(* while the agent's own code (settling a promise, emitting an event) may  *)
(* run between any two jobs.                                               *)
(***************************************************************************)
EXTENDS Integers, Sequences, FiniteSets, TLC

(***************************************************************************)
(* Bounds of the model.                                                    *)
(***************************************************************************)
MaxCalls == 2          \* handleRequest invocations in one behaviour of Spec
MaxCancelCalls == 3    \* handleRequest invocations in one behaviour of SpecCancel
MaxLinesPerChunk == 2  \* lines completed by one stdin chunk
MaxEvents == 2         \* events emitted in one behaviour of SpecEvents
MaxBinds == 2          \* calls of bind in one behaviour of SpecEvents
MaxEventCalls == 1     \* handleRequest invocations in one behaviour of SpecEvents
MaxFramedCalls == 1    \* handleRequest invocations in one behaviour of SpecFraming
MaxFairCalls == 3      \* handleRequest invocations in one behaviour of SpecFair
MaxRegistryCalls == 2  \* handleRequest invocations in one behaviour of SpecRegistry
MaxRegistryEvents == 1 \* events emitted in one behaviour of SpecRegistry
MaxFramedLines == 2    \* lines framed in one behaviour of SpecFraming

(***************************************************************************)
(* JSON values, tagged so that values of different JavaScript types can be *)
(* compared.  Undefined is the JavaScript value `undefined'.               *)
(***************************************************************************)
Null == [t |-> "null", v |-> 0]
Undefined == [t |-> "undefined", v |-> 0]
Num(n) == [t |-> "num", v |-> n]
Str(s) == [t |-> "str", v |-> s]
Bool(b) == [t |-> "bool", v |-> b]
Arr(s) == [t |-> "arr", v |-> s]
\* an object read only through its `func' and `args' properties; a property
\* the object lacks reads as Undefined
Obj(f, a) == [t |-> "obj", v |-> [func |-> f, args |-> a]]
EmptyObj == Obj(Undefined, Undefined)

\* the outcome of evaluating an expression that throws
Thrown == [t |-> "throw", v |-> 0]

\* request[i] (0-based, as in the source) on an arbitrary JSON value
Index(x, i) ==
    IF x.t \in {"null", "undefined", "throw"} THEN Thrown
    ELSE IF x.t = "arr" /\ i + 1 <= Len(x.v) THEN x.v[i + 1]
    ELSE Undefined

\* x.func
PropFunc(x) ==
    IF x.t \in {"null", "undefined", "throw"} THEN Thrown
    ELSE IF x.t = "obj" THEN x.v.func
    ELSE Undefined

\* x.args
PropArgs(x) ==
    IF x.t \in {"null", "undefined", "throw"} THEN Thrown
    ELSE IF x.t = "obj" THEN x.v.args
    ELSE Undefined

(***************************************************************************)
(* Wire text.  A chunk is a sequence of tokens: punctuation, the line      *)
(* terminator, or a JSON value standing for its own serialisation (the     *)
(* elements of the top-level array are not split further).                 *)
(***************************************************************************)
Punct(c) == [t |-> "punct", v |-> c]
LB == Punct("[")
RB == Punct("]")
COMMA == Punct(",")
NL == Punct("\n")

\* an array element that is `undefined' is serialised as null
Element(x) == IF x = Undefined THEN Null ELSE x

RECURSIVE Elements(_)
Elements(s) ==
    IF Len(s) = 0 THEN << >>
    ELSE IF Len(s) = 1 THEN << Element(s[1]) >>
    ELSE << Element(s[1]), COMMA >> \o Elements(Tail(s))

\* JSON.stringify at token level
JSONstringify(x) ==
    IF x.t = "arr" THEN << LB >> \o Elements(x.v) \o << RB >>
    ELSE << x >>

SyntaxError == [t |-> "throw", v |-> 1]

\* JSON.parse at token level: surrounding white space (the terminator) is
\* ignored; a single value token, or a bracketed comma-separated list of
\* value tokens, parses; anything else is a SyntaxError
StripNL(line) ==
    IF Len(line) > 0 /\ line[Len(line)] = NL THEN SubSeq(line, 1, Len(line) - 1)
    ELSE line

IsValueToken(tok) == tok.t \notin {"punct", "throw", "undefined"}

JSONparse(line) ==
    LET text == StripNL(line)
        n == Len(text)
    IN  IF n = 1 /\ IsValueToken(text[1]) THEN text[1]
        ELSE IF n >= 2 /\ text[1] = LB /\ text[n] = RB
                /\ (n = 2 \/ n % 2 = 1)
                /\ \A i \in 2..(n - 1) :
                      IF i % 2 = 0 THEN IsValueToken(text[i]) ELSE text[i] = COMMA
             THEN Arr([k \in 1..((n - 1) \div 2) |-> text[2 * k]])
        ELSE SyntaxError

(***************************************************************************)
(* splitLines (utils): the maximal pieces of the input each ending with    *)
(* its terminator, plus the unterminated remainder when there is one.      *)
(***************************************************************************)
RECURSIVE splitLines(_)
splitLines(input) ==
    IF Len(input) = 0 THEN << >>
    ELSE IF \E i \in 1..Len(input) : input[i] = NL
         THEN LET i == CHOOSE k \in 1..Len(input) :
                          /\ input[k] = NL
                          /\ \A m \in 1..(k - 1) : input[m] # NL
              IN  << SubSeq(input, 1, i) >> \o splitLines(SubSeq(input, i + 1, Len(input)))
         ELSE << input >>

endsWithNL(line) == Len(line) > 0 /\ line[Len(line)] = NL

(***************************************************************************)
(* The agent (Agent.ts).  Each function of the agent either returns a      *)
(* value at once, returns a native promise, returns a CancelablePromise,   *)
(* or throws when invoked.                                                 *)
(***************************************************************************)
AgentFunction ==
    [ping |-> [returns |-> "value", value |-> Str("pong")],
     initialize |-> [returns |-> "promise", value |-> Null],
     getCompletions |-> [returns |-> "cancelable", value |-> Null],
     fail |-> [returns |-> "throws", value |-> Null]]

Agents == {"a1", "a2"}
NoAgent == "null"

\* the value the operation started by call c resolves to (one per call, so
\* that a response carrying another call's value is told apart), and the
\* payloads of events
ResolvedValue(c) == Str(ToString(c))
EventPayloads == {Str("statusChanged"), Str("configUpdated")}

(***************************************************************************)
(* State.                                                                  *)
(***************************************************************************)
VARIABLES
    buffer,           \* StdIO.buffer: the unterminated tail of the input
    ongoingRequests,  \* StdIO.ongoingRequests: request id -> call holding the promise
    agent,            \* StdIO.agent
    listeners,        \* per agent, the listeners bind registered for each event name
    calls,            \* one record per invocation of handleRequest
    jobs,             \* the promise job queue
    out,              \* the lines written to stdout, each with the call it answers
    settled,          \* history: the calls whose promise settled, in settling order
    events,           \* history: the events emitted by the agents, in order
    stream            \* history of stdin (kept by SpecFraming): the text received,
                      \* the lines handed to JSON.parse, the kinds of chunk seen

vars == << buffer, ongoingRequests, agent, listeners, calls, jobs, out, settled, events,
           stream >>

NoRequests == [k \in {} |-> 0]

Init ==
    /\ buffer = << >>
    /\ ongoingRequests = NoRequests
    /\ agent = NoAgent
    /\ listeners = [a \in Agents |-> 0]
    /\ calls = << >>
    /\ jobs = << >>
    /\ out = << >>
    /\ settled = << >>
    /\ events = << >>
    /\ stream = [received |-> << >>, decoded |-> << >>, cuts |-> {}]

Job(name, c) == [job |-> name, c |-> c]

\* this.ongoingRequests[key]; 0 stands for `undefined'
Ongoing(reg, key) == IF key \in DOMAIN reg THEN reg[key] ELSE 0

\* delete this.ongoingRequests[key]
Delete(reg, key) == [k \in (DOMAIN reg) \ {key} |-> reg[k]]

\* this.ongoingRequests[key] = c
Insert(reg, key, c) == (key :> c) @@ reg

(***************************************************************************)
(* CancelablePromise.cancel(): a promise that has settled ignores it; a    *)
(* pending one is rejected, which schedules the reaction registered on it. *)
(***************************************************************************)
cancel(st, c) ==
    LET call == st.calls[c]
    IN  IF call.pst # "pending"
        THEN [st EXCEPT !.calls[c].ncancel = @ + 1]
        ELSE [st EXCEPT !.calls[c].ncancel = @ + 1,
                        !.calls[c].pst = "rejected",
                        !.settled = Append(@, c),
                        !.jobs = IF call.reacts THEN Append(@, Job("reaction", c)) ELSE @]

(***************************************************************************)
(* StdIO.cancelRequest.  The result is the state after the call together   *)
(* with the returned value (Thrown when reading the target throws).        *)
(* `cancelled' records, for the history, that the call's entry was removed *)
(* by a cancelRequest.                                                     *)
(***************************************************************************)
Untrack(st, target, c) ==
    [st EXCEPT !.reg = Delete(@, target), !.calls[c].cancelled = TRUE]

\* variant: the early return of lines 118-120 is missing
cancelRequestNoCheck(st, request) ==
    LET target == Index(PropArgs(Index(request, 1)), 0)
        ongoing == Ongoing(st.reg, target)
    IN  IF target = Thrown THEN [st |-> st, ret |-> Thrown]
        ELSE IF ongoing = 0
             THEN [st |-> [st EXCEPT !.reg = Delete(@, target)], ret |-> Bool(TRUE)]
        ELSE LET st1 == IF st.calls[ongoing].kind = "cancelable"
                        THEN cancel(st, ongoing) ELSE st
             IN  [st |-> Untrack(st1, target, ongoing), ret |-> Bool(TRUE)]

\* variant: the delete of line 124 is missing
cancelRequestKeepsEntry(st, request) ==
    LET target == Index(PropArgs(Index(request, 1)), 0)
        ongoing == Ongoing(st.reg, target)
    IN  IF target = Thrown THEN [st |-> st, ret |-> Thrown]
        ELSE IF ongoing = 0 THEN [st |-> st, ret |-> Bool(FALSE)]
        ELSE LET st1 == IF st.calls[ongoing].kind = "cancelable"
                        THEN cancel(st, ongoing) ELSE st
             IN  [st |-> [st1 EXCEPT !.calls[ongoing].cancelled = TRUE], ret |-> Bool(TRUE)]

\* variant: the instanceof test of line 121 is missing
cancelRequestCancelsAny(st, request) ==
    LET target == Index(PropArgs(Index(request, 1)), 0)
        ongoing == Ongoing(st.reg, target)
    IN  IF target = Thrown THEN [st |-> st, ret |-> Thrown]
        ELSE IF ongoing = 0 THEN [st |-> st, ret |-> Bool(FALSE)]
        ELSE [st |-> Untrack(cancel(st, ongoing), target, ongoing), ret |-> Bool(TRUE)]

cancelRequest(st, request) ==
    LET target == Index(PropArgs(Index(request, 1)), 0)
        ongoing == Ongoing(st.reg, target)
    IN  IF target = Thrown THEN [st |-> st, ret |-> Thrown]
        ELSE IF ongoing = 0 THEN [st |-> st, ret |-> Bool(FALSE)]
        ELSE LET st1 == IF st.calls[ongoing].kind = "cancelable"
                        THEN cancel(st, ongoing) ELSE st
             IN  [st |-> Untrack(st1, target, ongoing), ret |-> Bool(TRUE)]

(***************************************************************************)
(* StdIO.handleRequest up to its first suspension: the part of the async   *)
(* function that runs inside handleInput.  A call that reaches `return'    *)
(* fulfils its promise, and the callback handleInput registers with        *)
(* .then is queued as a job; a call that awaits stays "awaiting".          *)
(***************************************************************************)
NewCall(request, bound) ==
    [req |-> request, id |-> Num(0), data |-> Null, bound |-> bound,
     kind |-> "sync", pst |-> "none", val |-> Null, reacts |-> FALSE,
     ncancel |-> 0, cancelled |-> FALSE, phase |-> "returned"]

\* variant: the lines are handled one after the other, so the response of
\* a call is held back while an earlier call is suspended
ReturnInTurn(st, call) ==
    IF \E d \in 1..Len(st.calls) : st.calls[d].phase = "awaiting"
    THEN [st EXCEPT !.calls = Append(@, call)]
    ELSE [st EXCEPT !.calls = Append(@, call),
                    !.jobs = Append(@, Job("then", Len(st.calls) + 1))]

\* variant: a result is tracked whether or not it is a promise (the test of
\* line 101 is missing)
ReturnTracked(st, call) ==
    [st EXCEPT !.reg = IF call.data # Null THEN Insert(@, call.id, Len(st.calls) + 1)
                       ELSE @,
               !.calls = Append(@, call),
               !.jobs = Append(@, Job("then", Len(st.calls) + 1))]

\* `finally { return response }' without having awaited
Return(st, call) ==
    [st EXCEPT !.calls = Append(@, call),
               !.jobs = Append(@, Job("then", Len(st.calls) + 1))]

\* lines 101-103: track the promise under the request id, then await it.
\* Awaiting a native promise registers the continuation on it at once;
\* awaiting any other thenable queues the job that will call its then().
Await(st, call, returns) ==
    LET c == Len(st.calls) + 1
    IN  [st EXCEPT !.reg = Insert(@, call.id, c),
                   !.calls = Append(@, [call EXCEPT !.kind = returns,
                                                    !.pst = "pending",
                                                    !.reacts = (returns = "promise"),
                                                    !.phase = "awaiting"]),
                   !.jobs = IF returns = "promise" THEN @
                            ELSE Append(@, Job("thenable", c))]

\* variant: line 87 lets an unbound StdIO through
notBoundIgnored(a) == FALSE

\* line 87: !this.agent
notBound(a) == a = NoAgent

\* variant: line 90 is missing
SetIdDropped(response, id) == response

\* line 90: response[0] = request[0]
SetId(response, id) == [response EXCEPT !.id = id]

handleRequest(st, request) ==
    LET response0 == NewCall(request, st.agent # NoAgent)
        id == Index(request, 0)
        response == SetId(response0, id)
        funcName == PropFunc(Index(request, 1))
    IN  IF notBound(st.agent) THEN Return(st, response0)
        ELSE IF id = Thrown THEN Return(st, response0)
        ELSE IF funcName = Thrown THEN Return(st, response)
        ELSE IF funcName = Str("cancelRequest")
             THEN LET r == cancelRequest(st, request)
                  IN  IF r.ret = Thrown THEN Return(st, response)
                      ELSE Return(r.st, [response EXCEPT !.data = r.ret])
        ELSE IF ~(funcName.t = "str" /\ funcName.v \in DOMAIN AgentFunction)
             THEN Return(st, response)
        ELSE LET func == AgentFunction[funcName.v]
             IN  IF func.returns = "throws" THEN Return(st, response)
                 ELSE IF func.returns = "value"
                      THEN IF func.value = Null THEN Return(st, response)
                           ELSE Return(st, [response EXCEPT !.data = func.value])
                 ELSE Await(st, response, func.returns)

(***************************************************************************)
(* StdIO.handleInput.                                                      *)
(***************************************************************************)
RECURSIVE handleLines(_, _)
handleLines(st, lines) ==
    IF Len(lines) = 0 THEN st
    ELSE LET request == JSONparse(Head(lines))
         IN  IF request = SyntaxError THEN handleLines(st, Tail(lines))
             ELSE handleLines(handleRequest(st, request), Tail(lines))

\* variant: the unterminated tail is not kept (line 66 only pops it)
frameDropsTail(buf, data) ==
    LET input == buf \o data
        lines == splitLines(input)
    IN  IF Len(lines) < 1 THEN [lines |-> << >>, buffer |-> input]
        ELSE IF endsWithNL(lines[Len(lines)])
             THEN [lines |-> lines, buffer |-> << >>]
             ELSE [lines |-> SubSeq(lines, 1, Len(lines) - 1), buffer |-> << >>]

\* lines 57-67: the lines the loop of line 68 goes through, and the buffer
\* kept for the next chunk
frame(buf, data) ==
    LET input == buf \o data
        lines == splitLines(input)
    IN  IF Len(lines) < 1 THEN [lines |-> << >>, buffer |-> input]
        ELSE IF endsWithNL(lines[Len(lines)])
             THEN [lines |-> lines, buffer |-> << >>]
             ELSE [lines |-> SubSeq(lines, 1, Len(lines) - 1),
                   buffer |-> lines[Len(lines)]]

handleInput(st, data) ==
    LET framed == frame(st.buffer, data)
    IN  handleLines([st EXCEPT !.buffer = framed.buffer], framed.lines)

State ==
    [buffer |-> buffer, reg |-> ongoingRequests, agent |-> agent, calls |-> calls,
     jobs |-> jobs, settled |-> settled]

Becomes(st) ==
    /\ buffer' = st.buffer
    /\ ongoingRequests' = st.reg
    /\ calls' = st.calls
    /\ jobs' = st.jobs
    /\ settled' = st.settled

(***************************************************************************)
(* The input: the peer sends lines taken from WireLines, and the stream    *)
(* delivers them in chunks.                                                *)
(***************************************************************************)
Request(id, func, args) == Arr(<< Num(id), Obj(Str(func), Arr(args)) >>)

Requests ==
    {Request(1, f, << >>) : f \in {"ping", "fail", "nosuch"}}
    \cup {Request(id, "initialize", << >>) : id \in {1, 2}}
    \cup {Request(1, "getCompletions", << >>)}
    \cup {Request(3, "cancelRequest", << Num(target) >>) : target \in {1, 2}}

\* parseable JSON that is not a request
NotRequests == {Num(42), Arr(<< Num(1), EmptyObj >>)}

\* text that JSON.parse rejects
NotJSON == {<< LB, Num(1), COMMA >>}

WireLines ==
    {JSONstringify(x) \o << NL >> : x \in Requests \cup NotRequests}
    \cup {text \o << NL >> : text \in NotJSON}

\* the lines of SpecCancel: the two kinds of pending operation, and
\* cancelRequest for an id they use and for an id nothing uses
CancelLines ==
    {JSONstringify(x) \o << NL >> :
        x \in {Request(1, "initialize", << >>), Request(1, "getCompletions", << >>),
               Request(3, "cancelRequest", << Num(1) >>),
               Request(3, "cancelRequest", << Num(2) >>)}}

\* the lines of SpecRegistry, each sent as one chunk: one request per way
\* of being dispatched, and lines that are not requests
RegistryLines ==
    {JSONstringify(x) \o << NL >> :
        x \in {Request(1, "ping", << >>), Request(0, "ping", << >>),
               Request(1, "nosuch", << >>),
               Request(1, "fail", << >>), Request(2, "initialize", << >>),
               Request(2, "getCompletions", << >>),
               Request(3, "cancelRequest", << Num(2) >>), Num(42)}}
    \cup {text \o << NL >> : text \in NotJSON}

\* the lines SpecFraming cuts into chunks
FramedLines ==
    {JSONstringify(x) \o << NL >> :
        x \in {Request(1, "ping", << >>), Request(1, "getCompletions", << >>),
               Request(3, "cancelRequest", << Num(1) >>)}}
    \cup {text \o << NL >> : text \in NotJSON}

IsPrefix(s, t) == Len(s) <= Len(t) /\ SubSeq(t, 1, Len(s)) = s

\* the ways the stream can go on after `buf' without completing a line
Fragments(buf, lines) ==
    UNION {{SubSeq(l, Len(buf) + 1, k) : k \in (Len(buf) + 1)..(Len(l) - 1)} :
              l \in {w \in lines : IsPrefix(buf, w)}}

\* the rest of the line `buf' begins
Completions(buf, lines) ==
    {SubSeq(l, Len(buf) + 1, Len(l)) : l \in {w \in lines : IsPrefix(buf, w)}}

\* chunks made of at most n whole lines
RECURSIVE LineChunks(_, _)
LineChunks(n, lines) ==
    IF n = 0 THEN {<< >>}
    ELSE LET shorter == LineChunks(n - 1, lines)
         IN  shorter \cup {c \o l : c \in shorter, l \in lines}

AlignedChunks == LineChunks(MaxLinesPerChunk, WireLines) \ {<< >>}
CancelChunks == LineChunks(MaxLinesPerChunk, CancelLines) \ {<< >>}

\* chunks cut anywhere: a fragment of a line; or the rest of the current
\* line, then possibly a whole line, then possibly the beginning of another
CutTails ==
    {ls \o f : ls \in {<< >>} \cup FramedLines,
               f \in {<< >>} \cup Fragments(<< >>, FramedLines)}

CutChunks(buf) ==
    Fragments(buf, FramedLines)
    \cup {c \o t : c \in Completions(buf, FramedLines), t \in CutTails}

(***************************************************************************)
(* StdIO.sendResponse: one line on stdout.  `src' records which call the   *)
(* line answers (0 for an event notification).                             *)
(***************************************************************************)
sendResponse(o, response, src) ==
    Append(o, [text |-> JSONstringify(response) \o << NL >>, src |-> src])

Response(call) == Arr(<< call.id, call.data >>)

(***************************************************************************)
(* Actions.                                                                *)
(***************************************************************************)
\* a `data' event of stdin: it is delivered when no promise job is queued
HandleChunk(data, maxCalls) ==
    LET st == handleInput(State, data)
    IN  /\ jobs = << >>
        /\ Len(calls) < maxCalls
        /\ Len(st.calls) <= maxCalls
        /\ Becomes(st)
        /\ UNCHANGED << agent, listeners, out, events >>

HandleInput(data, maxCalls) ==
    /\ HandleChunk(data, maxCalls)
    /\ UNCHANGED stream

\* what an observer of stdin and of the decoder notes down for one chunk
CountNL(data) == Cardinality({i \in 1..Len(data) : data[i] = NL})

Observe(s, buf, data) ==
    [received |-> s.received \o data,
     decoded |-> s.decoded \o frame(buf, data).lines,
     cuts |-> s.cuts
              \cup (IF data # << >> /\ ~endsWithNL(data) THEN {"inside"} ELSE {})
              \cup (IF CountNL(data) >= 2 THEN {"several"} ELSE {})]

\* HandleInput with the history of stdin kept
Feed(data, maxCalls, maxLines) ==
    /\ HandleChunk(data, maxCalls)
    /\ Len(stream.decoded) < maxLines
    /\ stream' = Observe(stream, buffer, data)
    /\ Len(stream'.decoded) <= maxLines

\* StdIO.bind: one listener per event name is added to the agent
Bind(a, maxBinds) ==
    /\ jobs = << >>
    /\ listeners["a1"] + listeners["a2"] < maxBinds
    /\ agent' = a
    /\ listeners' = [listeners EXCEPT ![a] = @ + 1]
    /\ UNCHANGED << buffer, ongoingRequests, calls, jobs, out, settled, events, stream >>

\* the listeners of lines 135-137, run for an event the agent emits
RECURSIVE notify(_, _, _)
notify(o, event, n) ==
    IF n = 0 THEN o ELSE notify(sendResponse(o, Arr(<< Num(0), event >>), 0), event, n - 1)

Emit(a, event, maxEvents) ==
    /\ Len(events) < maxEvents
    /\ out' = notify(out, event, listeners[a])
    /\ events' = Append(events, [by |-> a, event |-> event, bound |-> (agent = a)])
    /\ UNCHANGED << buffer, ongoingRequests, agent, listeners, calls, jobs, settled, stream >>

\* variant: the continuation of the promise that settled last runs first
settleLastFirst(st, c, how, value) ==
    [st EXCEPT !.calls[c].pst = how,
               !.calls[c].val = value,
               !.settled = Append(@, c),
               !.jobs = IF ~st.calls[c].reacts THEN @
                        ELSE IF st.calls[c].kind = "promise" THEN << Job("resume", c) >> \o @
                        ELSE << Job("reaction", c) >> \o @]

\* the promise an agent function returned settles
settle(st, c, how, value) ==
    [st EXCEPT !.calls[c].pst = how,
               !.calls[c].val = value,
               !.settled = Append(@, c),
               !.jobs = IF ~st.calls[c].reacts THEN @
                        ELSE IF st.calls[c].kind = "promise" THEN Append(@, Job("resume", c))
                        ELSE Append(@, Job("reaction", c))]

Resolve(c) ==
    /\ c \in 1..Len(calls)
    /\ calls[c].pst = "pending"
    /\ Becomes(settle(State, c, "fulfilled", ResolvedValue(c)))
    /\ UNCHANGED << agent, listeners, out, events, stream >>

Fault(c) ==
    /\ c \in 1..Len(calls)
    /\ calls[c].pst = "pending"
    /\ Becomes(settle(State, c, "rejected", Null))
    /\ UNCHANGED << agent, listeners, out, events, stream >>

\* the job queued by awaiting a thenable: it calls then() on it
thenable(st, c) ==
    [st EXCEPT !.calls[c].reacts = TRUE,
               !.jobs = IF st.calls[c].pst = "pending" THEN @
                        ELSE Append(@, Job("reaction", c))]

ThenableJob ==
    /\ jobs # << >> /\ Head(jobs).job = "thenable"
    /\ Becomes(thenable([State EXCEPT !.jobs = Tail(@)], Head(jobs).c))
    /\ UNCHANGED << agent, listeners, out, events, stream >>

\* the reaction then() registered: it settles the promise `await' waits on
reaction(st, c) == [st EXCEPT !.jobs = Append(@, Job("resume", c))]

ReactionJob ==
    /\ jobs # << >> /\ Head(jobs).job = "reaction"
    /\ Becomes(reaction([State EXCEPT !.jobs = Tail(@)], Head(jobs).c))
    /\ UNCHANGED << agent, listeners, out, events, stream >>

\* variant: the awaited value is kept in a place all calls share, so the
\* response takes the value of the promise that settled last
resumeLatest(st, c) ==
    LET call == st.calls[c]
        latest == st.calls[st.settled[Len(st.settled)]]
        done == IF call.pst = "fulfilled"
                THEN [st EXCEPT !.calls[c].data = latest.val,
                                !.reg = Delete(@, call.id)]
                ELSE st
    IN  [done EXCEPT !.calls[c].phase = "returned",
                     !.jobs = Append(@, Job("then", c))]

\* variant: no catch, so a rejection leaves handleRequest without a response
resumeUncaught(st, c) ==
    LET call == st.calls[c]
    IN  IF call.pst = "fulfilled"
        THEN [st EXCEPT !.calls[c].data = call.val,
                        !.reg = Delete(@, call.id),
                        !.calls[c].phase = "returned",
                        !.jobs = Append(@, Job("then", c))]
        ELSE [st EXCEPT !.calls[c].phase = "thrown"]

\* handleRequest from line 103 on: the value is stored and the request
\* untracked, or the rejection is caught; then `return response'
resume(st, c) ==
    LET call == st.calls[c]
        done == IF call.pst = "fulfilled"
                THEN [st EXCEPT !.calls[c].data = call.val,
                                !.reg = Delete(@, call.id)]
                ELSE st
    IN  [done EXCEPT !.calls[c].phase = "returned",
                     !.jobs = Append(@, Job("then", c))]

ResumeJob ==
    /\ jobs # << >> /\ Head(jobs).job = "resume"
    /\ Becomes(resume([State EXCEPT !.jobs = Tail(@)], Head(jobs).c))
    /\ UNCHANGED << agent, listeners, out, events, stream >>

\* the callback of lines 77-80
ThenJob ==
    /\ jobs # << >> /\ Head(jobs).job = "then"
    /\ out' = sendResponse(out, Response(calls[Head(jobs).c]), Head(jobs).c)
    /\ calls' = [calls EXCEPT ![Head(jobs).c].phase = "sent"]
    /\ jobs' = Tail(jobs)
    /\ UNCHANGED << buffer, ongoingRequests, agent, listeners, settled, events, stream >>

(***************************************************************************)
(* Spec: dispatch and cancellation.  The stream delivers whole lines, one  *)
(* agent is bound once and emits no event.                                 *)
(***************************************************************************)
Next ==
    \/ \E data \in AlignedChunks : HandleInput(data, MaxCalls)
    \/ Bind("a1", 1)
    \/ \E c \in 1..MaxCalls : Resolve(c)
    \/ \E c \in 1..MaxCalls : Fault(c)
    \/ ThenableJob
    \/ ReactionJob
    \/ ResumeJob
    \/ ThenJob

Spec == Init /\ [][Next]_vars

(***************************************************************************)
(* SpecCancel: longer runs over the lines that start pending operations    *)
(* and cancel them.                                                        *)
(***************************************************************************)
NextCancel ==
    \/ \E data \in CancelChunks : HandleInput(data, MaxCancelCalls)
    \/ Bind("a1", 1)
    \/ \E c \in 1..MaxCancelCalls : Resolve(c)
    \/ \E c \in 1..MaxCancelCalls : Fault(c)
    \/ ThenableJob
    \/ ReactionJob
    \/ ResumeJob
    \/ ThenJob

SpecCancel == Init /\ [][NextCancel]_vars

(***************************************************************************)
(* SpecEvents: binding and event forwarding.  Either agent may be bound,   *)
(* bind may be called again, and the agents emit events at any time, also  *)
(* between two promise jobs.                                               *)
(***************************************************************************)
NextEvents ==
    \/ \E data \in AlignedChunks : HandleInput(data, MaxEventCalls)
    \/ \E a \in Agents : Bind(a, MaxBinds)
    \/ \E a \in Agents, event \in EventPayloads : Emit(a, event, MaxEvents)
    \/ \E c \in 1..MaxEventCalls : Resolve(c)
    \/ \E c \in 1..MaxEventCalls : Fault(c)
    \/ ThenableJob
    \/ ReactionJob
    \/ ResumeJob
    \/ ThenJob

SpecEvents == Init /\ [][NextEvents]_vars

(***************************************************************************)
(* SpecRegistry: every way of dispatching a line, with a request tracked   *)
(* or not, an agent bound or not, and events in between.                   *)
(***************************************************************************)
NextRegistry ==
    \/ \E data \in RegistryLines : HandleInput(data, MaxRegistryCalls)
    \/ Bind("a1", 1)
    \/ \E event \in EventPayloads : Emit("a1", event, MaxRegistryEvents)
    \/ \E c \in 1..MaxRegistryCalls : Resolve(c)
    \/ \E c \in 1..MaxRegistryCalls : Fault(c)
    \/ ThenableJob
    \/ ReactionJob
    \/ ResumeJob
    \/ ThenJob

SpecRegistry == Init /\ [][NextRegistry]_vars

(***************************************************************************)
(* SpecFraming: the stream cuts the lines into chunks at any token.        *)
(***************************************************************************)
NextFraming ==
    \/ \E data \in CutChunks(buffer) : Feed(data, MaxFramedCalls, MaxFramedLines)
    \/ Bind("a1", 1)
    \/ \E c \in 1..MaxFramedCalls : Resolve(c)
    \/ \E c \in 1..MaxFramedCalls : Fault(c)
    \/ ThenableJob
    \/ ReactionJob
    \/ ResumeJob
    \/ ThenJob

SpecFraming == Init /\ [][NextFraming]_vars

(***************************************************************************)
(* SpecFair: the lines of SpecCancel under the scheduling the event loop   *)
(* guarantees: a queued promise job is eventually run.  Nothing obliges    *)
(* the agent to settle a promise or the peer to send input.                *)
(***************************************************************************)
NextFair ==
    \/ \E data \in CancelChunks : HandleInput(data, MaxFairCalls)
    \/ Bind("a1", 1)
    \/ \E c \in 1..MaxFairCalls : Resolve(c)
    \/ \E c \in 1..MaxFairCalls : Fault(c)
    \/ ThenableJob
    \/ ReactionJob
    \/ ResumeJob
    \/ ThenJob

SpecFair ==
    /\ Init /\ [][NextFair]_vars
    /\ WF_vars(ThenableJob) /\ WF_vars(ReactionJob)
    /\ WF_vars(ResumeJob) /\ WF_vars(ThenJob)

(***************************************************************************)
(* Vocabulary of the properties.                                           *)
(***************************************************************************)
Calls == 1..Len(calls)

\* the output lines written in answer to call c
Answers(c) == {i \in 1..Len(out) : out[i].src = c}

\* an output line as its reader decodes it
Wire(i) == JSONparse(out[i].text)

\* call c has been answered by exactly one line, and that line is [id, data]
AnsweredOnceWith(c, id, data) ==
    /\ Cardinality(Answers(c)) = 1
    /\ \A i \in Answers(c) : Wire(i) = Arr(<< id, data >>)

RequestId(c) == Index(calls[c].req, 0)
RequestFunc(c) == PropFunc(Index(calls[c].req, 1))
RequestTarget(c) == Index(PropArgs(Index(calls[c].req, 1)), 0)

\* the operation of call c returned a promise (plain or cancelable)
IsPending(c) == calls[c].kind \in {"promise", "cancelable"}

\* the promise of call c was rejected by the operation itself
Faulted(c) == IsPending(c) /\ calls[c].pst = "rejected" /\ calls[c].ncancel = 0

\* nothing is left to run for call c: it was not suspended, or its promise
\* has settled, and the job queue is empty
Quiet(c) == jobs = << >> /\ calls[c].pst # "pending"

\* C1: a request handled while an agent is bound is answered by at most
\* one line, and that line carries the id of the request, whether the
\* operation returned a value, resolved later, faulted or was cancelled.
C1_AtMostOneResponseWithOwnId ==
    \A c \in Calls :
        calls[c].bound /\ RequestId(c).t = "num" =>
            /\ Cardinality(Answers(c)) <= 1
            /\ \A i \in Answers(c) : Index(Wire(i), 0) = RequestId(c)
            /\ calls[c].phase = "sent" => Cardinality(Answers(c)) = 1

C1_Witness ==
    \E c1, c2 \in Calls :
        /\ calls[c1].kind = "cancelable" /\ calls[c1].ncancel = 1
        /\ calls[c2].kind = "sync" /\ RequestFunc(c2) = Str("cancelRequest")
        /\ RequestId(c1) = Num(1) /\ RequestId(c2) = Num(3)
        /\ \A c \in {c1, c2} :
              calls[c].bound /\ AnsweredOnceWith(c, RequestId(c), calls[c].data)

\* C2: two requests with distinct ids that both await a promise each get
\* exactly one response carrying their own id and the value their own
\* operation resolved to, in whichever order the operations resolve.
C2_OwnResultWhateverTheOrder ==
    \A c1, c2 \in Calls :
        /\ c1 < c2 /\ calls[c1].bound /\ calls[c2].bound
        /\ IsPending(c1) /\ IsPending(c2) /\ RequestId(c1) # RequestId(c2)
        /\ calls[c1].pst = "fulfilled" /\ calls[c2].pst = "fulfilled"
        /\ jobs = << >>
        => /\ AnsweredOnceWith(c1, RequestId(c1), ResolvedValue(c1))
           /\ AnsweredOnceWith(c2, RequestId(c2), ResolvedValue(c2))

Before(s, x, y) == \E i, j \in 1..Len(s) : i < j /\ s[i] = x /\ s[j] = y

C2_Witness ==
    \E c1, c2 \in Calls :
        /\ c1 < c2 /\ IsPending(c1) /\ IsPending(c2)
        /\ RequestId(c1) # RequestId(c2)
        /\ calls[c1].pst = "fulfilled" /\ calls[c2].pst = "fulfilled"
        /\ Before(settled, c2, c1)
        /\ calls[c1].phase = "sent" /\ calls[c2].phase = "sent"
        /\ jobs = << >>

\* C3: a request handled while no agent is bound, whatever its id and its
\* function, is answered by exactly the line [0,null]; and as long as bind
\* has not been called every line written is [0,null].
C3_NotBoundAnswersZeroNull ==
    /\ \A c \in Calls :
          ~calls[c].bound =>
              /\ Cardinality(Answers(c)) <= 1
              /\ \A i \in Answers(c) : Wire(i) = Arr(<< Num(0), Null >>)
              /\ Quiet(c) => Cardinality(Answers(c)) = 1
    /\ agent = NoAgent => \A i \in 1..Len(out) : Wire(i) = Arr(<< Num(0), Null >>)

C3_Witness ==
    /\ agent = NoAgent
    /\ \E c1, c2 \in Calls :
          /\ RequestFunc(c1) = Str("cancelRequest") /\ RequestId(c1) = Num(3)
          /\ RequestFunc(c2) = Str("ping") /\ RequestId(c2) = Num(1)
          /\ AnsweredOnceWith(c1, Num(0), Null)
          /\ AnsweredOnceWith(c2, Num(0), Null)

\* C4: with an agent bound, a request naming an unknown function, a request
\* whose operation throws when invoked, and a request whose promise is
\* rejected are each answered by exactly one line [id,null] with their own
\* id; and the input keeps being handled: after such a request, whenever no
\* job is queued, handleInput still dispatches every line that parses.
UnknownFunction(c) ==
    /\ RequestFunc(c).t = "str"
    /\ RequestFunc(c).v \notin DOMAIN AgentFunction \cup {"cancelRequest"}

ThrowsWhenInvoked(c) ==
    /\ RequestFunc(c).t = "str"
    /\ RequestFunc(c).v \in DOMAIN AgentFunction
    /\ AgentFunction[RequestFunc(c).v].returns = "throws"

C4_FaultsAnswerNullAndInputGoesOn ==
    /\ \A c \in Calls :
          /\ calls[c].bound /\ RequestId(c).t = "num"
          /\ UnknownFunction(c) \/ ThrowsWhenInvoked(c) \/ Faulted(c)
          => /\ Cardinality(Answers(c)) <= 1
             /\ \A i \in Answers(c) : Wire(i) = Arr(<< RequestId(c), Null >>)
             /\ Quiet(c) => Cardinality(Answers(c)) = 1
    /\ \A c \in Calls :
          /\ calls[c].bound /\ Quiet(c) /\ Len(calls) < MaxCalls
          /\ UnknownFunction(c) \/ ThrowsWhenInvoked(c) \/ Faulted(c)
          => \A line \in WireLines :
                JSONparse(line) # SyntaxError =>
                    LET after == handleInput(State, line).calls
                    IN  /\ Len(after) = Len(calls) + 1
                        /\ after[Len(after)].req = JSONparse(line)

C4_Witness ==
    \E c1, c2 \in Calls :
        /\ c1 < c2
        /\ calls[c1].bound
        /\ UnknownFunction(c1) \/ ThrowsWhenInvoked(c1) \/ Faulted(c1)
        /\ RequestFunc(c2) = Str("ping")
        /\ AnsweredOnceWith(c1, RequestId(c1), Null)
        /\ AnsweredOnceWith(c2, RequestId(c2), Str("pong"))
        /\ \E i \in Answers(c1), j \in Answers(c2) : i < j

\* C5: a line that is not valid wire syntax (text that does not parse, JSON
\* that is not a two-element array, an array whose second element lacks
\* func or args) has no output line written for it (here: among the lines
\* handled with an agent bound; text that does not parse starts no call).
IsWireSyntax(x) ==
    /\ x.t = "arr" /\ Len(x.v) = 2
    /\ x.v[2].t = "obj"
    /\ x.v[2].v.func # Undefined /\ x.v[2].v.args # Undefined

C5_NoOutputForInvalidLine ==
    \A c \in Calls : calls[c].bound /\ ~IsWireSyntax(calls[c].req) => Answers(c) = {}

(***************************************************************************)
(* Steps of handleInput that dispatch cancelRequest lines.                 *)
(***************************************************************************)
FuncOf(call) == PropFunc(Index(call.req, 1))
TargetOf(call) == Index(PropArgs(Index(call.req, 1)), 0)
IsCancelRequest(call) == call.bound /\ FuncOf(call) = Str("cancelRequest")

\* the step dispatches exactly one line, a cancelRequest handled with an
\* agent bound
OneCancelRequest ==
    /\ Len(calls') = Len(calls) + 1
    /\ IsCancelRequest(calls'[Len(calls')])

\* the step dispatches exactly two lines, both cancelRequest for one target
TwoCancelRequests ==
    /\ Len(calls') = Len(calls) + 2
    /\ IsCancelRequest(calls'[Len(calls) + 1])
    /\ IsCancelRequest(calls'[Len(calls) + 2])
    /\ TargetOf(calls'[Len(calls) + 1]) = TargetOf(calls'[Len(calls) + 2])

TheCancelRequest == calls'[Len(calls')]
Tracked(target) == Ongoing(ongoingRequests, target)

\* no cancel() is invoked on any handle by the step
NoCancelInvoked == \A c \in Calls : calls'[c].ncancel = calls[c].ncancel

\* the registry after the step is the registry before it without `target'
Removed(target) == ongoingRequests' = Delete(ongoingRequests, target)

\* a cancelRequest call that has been answered was answered once, with its
\* own id and the value cancelRequest returned
CancelAnswers ==
    \A c \in Calls :
        IsCancelRequest(calls[c]) /\ calls[c].phase = "sent" /\ calls[c].data.t = "bool"
            => AnsweredOnceWith(c, RequestId(c), calls[c].data)

\* C6: with an agent bound, a cancelRequest whose target has no entry in
\* ongoingRequests returns false (the response is [c,false]), invokes no
\* cancel() and leaves ongoingRequests and every call as they were.
C6_Step ==
    OneCancelRequest /\ Tracked(TargetOf(TheCancelRequest)) = 0 =>
        /\ TheCancelRequest.data = Bool(FALSE)
        /\ TheCancelRequest.id = Index(TheCancelRequest.req, 0)
        /\ ongoingRequests' = ongoingRequests
        /\ NoCancelInvoked
        /\ SubSeq(calls', 1, Len(calls)) = calls
        /\ settled' = settled

C6_CancelOfUntrackedIdIsFalse == [][C6_Step]_vars /\ []CancelAnswers

C6_Witness ==
    \E c \in Calls :
        /\ IsCancelRequest(calls[c]) /\ RequestTarget(c) = Num(2)
        /\ AnsweredOnceWith(c, Num(3), Bool(FALSE))
        /\ \E d \in Calls : d < c /\ IsPending(d) /\ calls[d].pst = "pending"

\* C7: a cancelRequest whose target has an entry holding a CancelablePromise
\* returns true, invokes cancel() on that promise once and on no other, and
\* removes the entry; a cancelRequest for the same target right after it
\* returns false and invokes nothing.  No promise is ever cancelled twice.
C7_Step ==
    /\ OneCancelRequest /\ Tracked(TargetOf(TheCancelRequest)) # 0
       /\ calls[Tracked(TargetOf(TheCancelRequest))].kind = "cancelable"
       => LET o == Tracked(TargetOf(TheCancelRequest))
          IN  /\ TheCancelRequest.data = Bool(TRUE)
              /\ calls'[o].ncancel = calls[o].ncancel + 1
              /\ \A c \in Calls \ {o} : calls'[c] = calls[c]
              /\ Removed(TargetOf(TheCancelRequest))
    /\ TwoCancelRequests /\ Tracked(TargetOf(TheCancelRequest)) # 0
       /\ calls[Tracked(TargetOf(TheCancelRequest))].kind = "cancelable"
       => LET o == Tracked(TargetOf(TheCancelRequest))
          IN  /\ calls'[Len(calls) + 1].data = Bool(TRUE)
              /\ calls'[Len(calls) + 2].data = Bool(FALSE)
              /\ calls'[o].ncancel = calls[o].ncancel + 1
              /\ \A c \in Calls \ {o} : calls'[c] = calls[c]
              /\ Removed(TargetOf(TheCancelRequest))
    /\ OneCancelRequest
       /\ (\E c \in Calls : calls[c].cancelled /\ calls[c].id = TargetOf(TheCancelRequest))
       /\ Tracked(TargetOf(TheCancelRequest)) = 0
       => TheCancelRequest.data = Bool(FALSE) /\ NoCancelInvoked

C7_CancelOnce ==
    /\ [][C7_Step]_vars
    /\ [](CancelAnswers /\ \A c \in Calls : calls[c].ncancel <= 1)

C7_Witness ==
    \E o, c1, c2 \in Calls :
        /\ o < c1 /\ c2 = c1 + 1
        /\ calls[o].kind = "cancelable" /\ calls[o].ncancel = 1 /\ calls[o].cancelled
        /\ IsCancelRequest(calls[c1]) /\ IsCancelRequest(calls[c2])
        /\ RequestTarget(c1) = calls[o].id /\ RequestTarget(c2) = calls[o].id
        /\ AnsweredOnceWith(c1, RequestId(c1), Bool(TRUE))
        /\ AnsweredOnceWith(c2, RequestId(c2), Bool(FALSE))

\* C8: a cancelRequest whose target has an entry holding a promise that
\* cannot be cancelled returns true and removes the entry, invoking no
\* cancel() and leaving the operation as it was; when the operation later
\* resolves, the request it belongs to is answered by exactly one line with
\* its own id and the resolved value.
C8_Step ==
    OneCancelRequest /\ Tracked(TargetOf(TheCancelRequest)) # 0
    /\ calls[Tracked(TargetOf(TheCancelRequest))].kind = "promise"
    => LET o == Tracked(TargetOf(TheCancelRequest))
       IN  /\ TheCancelRequest.data = Bool(TRUE)
           /\ Removed(TargetOf(TheCancelRequest))
           /\ NoCancelInvoked
           /\ calls'[o] = [calls[o] EXCEPT !.cancelled = TRUE]
           /\ \A c \in Calls \ {o} : calls'[c] = calls[c]
           /\ settled' = settled

C8_Untracked ==
    \A c \in Calls :
        /\ calls[c].kind = "promise" /\ calls[c].cancelled
        /\ calls[c].pst = "fulfilled" /\ jobs = << >>
        => AnsweredOnceWith(c, RequestId(c), ResolvedValue(c))

C8_UntrackedStillAnswers == [][C8_Step]_vars /\ [](CancelAnswers /\ C8_Untracked)

C8_Witness ==
    \E o, c \in Calls :
        /\ calls[o].kind = "promise" /\ calls[o].cancelled /\ calls[o].ncancel = 0
        /\ IsCancelRequest(calls[c]) /\ RequestTarget(c) = calls[o].id
        /\ calls[o].pst = "fulfilled"
        /\ AnsweredOnceWith(c, RequestId(c), Bool(TRUE))
        /\ AnsweredOnceWith(o, RequestId(o), ResolvedValue(o))
        /\ \E i \in Answers(c), j \in Answers(o) : i < j

\* C9: a cancelRequest returns false whenever every request that used the
\* target id and awaited a promise has completed and had its response
\* written (which covers an id no request used and an id whose operation
\* returned a value at once).
C9_Step ==
    /\ OneCancelRequest
    /\ \A c \in Calls :
          calls[c].id = TargetOf(TheCancelRequest) /\ IsPending(c)
              => calls[c].phase = "sent"
    => TheCancelRequest.data = Bool(FALSE)

C9_CancelOfCompletedIsFalse == [][C9_Step]_vars

\* C10: every event the bound agent emits puts exactly one line
\* [0, eventPayload] on the output, at the moment it is emitted (so the
\* event lines follow the order of emission).
C10_Step ==
    Len(events') = Len(events) + 1 /\ events'[Len(events')].bound
    => out' = sendResponse(out, Arr(<< Num(0), events'[Len(events')].event >>), 0)

C10_OneLinePerEvent == [][C10_Step]_vars

\* C11: under fair scheduling of the promise jobs, every dispatched request
\* whose operation returned at once, resolved or faulted eventually has its
\* one response written.  Conversely a request whose promise is pending has
\* no response; and while its promise neither settles nor is cancelled its
\* entry stays in ongoingRequests, whatever step is taken (no step stands
\* for a timeout).  The ids are taken to be unique among the tracked
\* requests: an id is used again only once its entry is gone.
InFlight(c) == calls[c].phase = "awaiting"

\* every other request in flight under the id of c was untracked by a
\* cancelRequest (so the id was free when c took it)
OthersCancelled(c) ==
    \A d \in Calls \ {c} :
        calls[d].id = calls[c].id /\ InFlight(d) => calls[d].cancelled

\* the step dispatches no request that uses the id of c
IdNotReused(c) ==
    \A d \in (Len(calls) + 1)..Len(calls') : calls'[d].id # calls[c].id

\* c is suspended on a pending promise, tracked, and not cancelled
TrackedPending(c) ==
    /\ calls[c].pst = "pending" /\ ~calls[c].cancelled
    /\ Ongoing(ongoingRequests, calls[c].id) = c

\* a step that neither settles nor cancels c keeps its entry
KeepsEntry(c) ==
    /\ TrackedPending(c) /\ OthersCancelled(c) /\ IdNotReused(c)
    /\ calls'[c].pst = "pending" /\ ~calls'[c].cancelled
    => Ongoing(ongoingRequests', calls[c].id) = c

C11_Step == \A c \in Calls : KeepsEntry(c)

C11_PendingUnanswered ==
    \A c \in Calls :
        calls[c].pst = "pending" => Answers(c) = {} /\ calls[c].phase = "awaiting"

C11_AnsweredWhenSettledTrackedWhilePending ==
    /\ \A c \in 1..MaxFairCalls :
          [](c \in Calls /\ calls[c].pst # "pending"
                => <>(/\ c \in Calls /\ calls[c].phase = "sent"
                      /\ Cardinality(Answers(c)) = 1))
    /\ [][C11_Step]_vars
    /\ []C11_PendingUnanswered

\* C12: a request suspended on a promise blocks nothing.  While its promise
\* is pending, handleInput still dispatches every line that parses; a later
\* request whose operation returns at once, and a later cancelRequest, is
\* answered while the suspended one is not; and at the step that writes
\* the response of a request that was suspended, every dispatched request
\* that was not suspended has its response on the output already.
Unsuspended(c) == calls[c].bound /\ calls[c].kind = "sync"

Immediate(c) ==
    /\ Unsuspended(c) /\ RequestId(c).t = "num" /\ RequestFunc(c).t = "str"
    /\ \/ RequestFunc(c) = Str("cancelRequest") /\ RequestTarget(c).t = "num"
       \/ /\ RequestFunc(c).v \in DOMAIN AgentFunction
          /\ AgentFunction[RequestFunc(c).v].returns = "value"

C12_Dispatches ==
    \A c \in Calls :
        calls[c].pst = "pending" /\ jobs = << >> /\ Len(calls) < MaxCalls
        => \A line \in WireLines :
              JSONparse(line) # SyntaxError =>
                  LET after == handleInput(State, line).calls
                  IN  /\ Len(after) = Len(calls) + 1
                      /\ after[Len(after)].req = JSONparse(line)
                      /\ after[c].pst = "pending" \/ after[c].ncancel = 1

C12_LaterAnswered ==
    \A c1, c2 \in Calls :
        c1 < c2 /\ calls[c1].pst = "pending" /\ Immediate(c2) /\ jobs = << >>
        => /\ AnsweredOnceWith(c2, calls[c2].id, calls[c2].data)
           /\ Answers(c1) = {}

C12_Step ==
    \A c1 \in Calls :
        IsPending(c1) /\ calls[c1].phase = "returned" /\ calls'[c1].phase = "sent"
        => \A c2 \in Calls \ {c1} :
              Unsuspended(c2) => calls[c2].phase = "sent" /\ Answers(c2) # {}

C12_NoHeadOfLineBlocking ==
    [][C12_Step]_vars /\ [](C12_Dispatches /\ C12_LaterAnswered)

C12_Witness ==
    \E c1, c2 \in Calls :
        /\ c1 < c2 /\ calls[c1].kind = "promise" /\ calls[c1].pst = "fulfilled"
        /\ Immediate(c2) /\ RequestFunc(c2) = Str("ping")
        /\ AnsweredOnceWith(c1, RequestId(c1), ResolvedValue(c1))
        /\ AnsweredOnceWith(c2, RequestId(c2), Str("pong"))
        /\ \E i \in Answers(c2), j \in Answers(c1) : i < j

\* C13: two requests with distinct ids that were both suspended on a
\* promise have their responses written in the order in which their
\* promises settled, whatever the order in which they were received.
AnswerBefore(c1, c2) == \E i \in Answers(c1), j \in Answers(c2) : i < j

BothSuspendedAndAnswered(c1, c2) ==
    /\ c1 # c2 /\ calls[c1].bound /\ calls[c2].bound
    /\ IsPending(c1) /\ IsPending(c2)
    /\ RequestId(c1) # RequestId(c2)
    /\ Answers(c1) # {} /\ Answers(c2) # {}

C13_ResponsesInSettlingOrder ==
    \A c1, c2 \in Calls :
        BothSuspendedAndAnswered(c1, c2) /\ Before(settled, c1, c2)
        => AnswerBefore(c1, c2)

\* C13 as amended: the order of the responses is the order of settling
\* when both requests were suspended on native promises.
C13_NativeInSettlingOrder ==
    \A c1, c2 \in Calls :
        /\ BothSuspendedAndAnswered(c1, c2) /\ Before(settled, c1, c2)
        /\ calls[c1].kind = "promise" /\ calls[c2].kind = "promise"
        => AnswerBefore(c1, c2)

C13_Witness ==
    \E c1, c2 \in Calls :
        /\ c2 < c1 /\ BothSuspendedAndAnswered(c1, c2)
        /\ calls[c1].kind = "promise" /\ calls[c2].kind = "promise"
        /\ Before(settled, c1, c2) /\ AnswerBefore(c1, c2)

\* C14: however the stream cuts the input into chunks (inside a line, or
\* with several terminators in one chunk), the lines handed to JSON.parse
\* are the lines handleInput frames when given all the text received as a
\* single chunk: the same lines in the same order, each one a line the
\* peer sent, none lost, repeated or merged; the buffer holds the
\* unterminated rest, and is empty when the text received ends with a
\* terminator.  The requests dispatched are those lines, parsed.
RECURSIVE Flat(_)
Flat(lines) == IF Len(lines) = 0 THEN << >> ELSE Head(lines) \o Flat(Tail(lines))

Parses(line) == JSONparse(line) # SyntaxError

C14_ChunkingDoesNotMatter ==
    LET whole == frame(<< >>, stream.received)
    IN  /\ stream.decoded = whole.lines
        /\ buffer = whole.buffer
        /\ Flat(stream.decoded) \o buffer = stream.received
        /\ \A i \in 1..Len(stream.decoded) : stream.decoded[i] \in FramedLines
        /\ stream.received = << >> \/ endsWithNL(stream.received) => buffer = << >>
        /\ LET parsed == SelectSeq(stream.decoded, Parses)
           IN  /\ Len(calls) = Len(parsed)
               /\ \A c \in Calls : calls[c].req = JSONparse(parsed[c])

C14_Witness ==
    /\ stream.cuts = {"inside", "several"}
    /\ Len(stream.decoded) = MaxFramedLines
    /\ \E i \in 1..Len(stream.decoded) : ~Parses(stream.decoded[i])
    /\ Len(calls) = MaxFramedCalls
    /\ buffer = << >>

\* C15: the entry of a request whose operation returned a promise is in
\* ongoingRequests from the step that dispatches it, and stays there until
\* the promise settles or a cancelRequest removes it; so a cancelRequest
\* for its id handled in between, even as the next line of the same chunk,
\* returns true.  The ids are taken to be unique among the tracked
\* requests, as for C11.
NewCalls == (Len(calls) + 1)..Len(calls')

\* a request dispatched by the step and left suspended is tracked
C15_Inserted ==
    \A c \in NewCalls :
        /\ calls'[c].pst = "pending" /\ ~calls'[c].cancelled
        /\ \A d \in NewCalls : d > c => calls'[d].id # calls'[c].id
        => Ongoing(ongoingRequests', calls'[c].id) = c

\* a cancelRequest on the line right after the request it targets
C15_NextLine ==
    \A c \in NewCalls :
        /\ c + 1 \in NewCalls
        /\ calls'[c].kind \in {"promise", "cancelable"}
        /\ IsCancelRequest(calls'[c + 1]) /\ TargetOf(calls'[c + 1]) = calls'[c].id
        => calls'[c + 1].data = Bool(TRUE) /\ calls'[c].cancelled

\* a cancelRequest handled later, while the request is still tracked
C15_Later ==
    \A c \in Calls :
        /\ TrackedPending(c)
        /\ OneCancelRequest /\ TargetOf(TheCancelRequest) = calls[c].id
        => TheCancelRequest.data = Bool(TRUE) /\ calls'[c].cancelled

C15_Step ==
    /\ C15_Inserted
    /\ \A c \in Calls : KeepsEntry(c)
    /\ C15_NextLine
    /\ C15_Later

C15_TrackedWhilePending == [][C15_Step]_vars

\* C16: every entry of ongoingRequests belongs to a request that is still
\* suspended: once a request has finished (its promise was fulfilled, was
\* rejected, or it was cancelled) and its response has been written,
\* ongoingRequests holds no entry that this request inserted.
Holds(c) == \E k \in DOMAIN ongoingRequests : ongoingRequests[k] = c

C16_NoEntryOfFinishedRequest ==
    \A c \in Calls : calls[c].phase = "sent" /\ Answers(c) # {} => ~Holds(c)

\* C17: an entry of ongoingRequests leaves it in one of two ways only: by
\* the completion of the request that inserted it, or by a cancelRequest
\* for its id; never by both, and never by another step (an event, bind,
\* a line that does not decode, the dispatch or the completion of another
\* request).  The ids are taken to be unique among the tracked requests,
\* as for C11.
Completes(c) == calls[c].phase = "awaiting" /\ calls'[c].phase = "returned"
CancelledNow(c) == ~calls[c].cancelled /\ calls'[c].cancelled

C17_Step ==
    \A k \in DOMAIN ongoingRequests :
        LET c == ongoingRequests[k]
        IN  /\ OthersCancelled(c) /\ IdNotReused(c)
            /\ Ongoing(ongoingRequests', k) # c
            => /\ Completes(c) \/ CancelledNow(c)
               /\ ~(Completes(c) /\ CancelledNow(c))

C17_RemovedByOwnerOrCancel == [][C17_Step]_vars

\* C18: ongoingRequests is left as it was by every step that starts no
\* pending operation and completes or cancels none: the dispatch of a
\* request whose operation returns a value at once, names no function of
\* the agent, or throws when invoked; the handling of any request while no
\* agent is bound; a line that does not decode; an event; bind; and a
\* cancelRequest invokes no function of the agent: its result is the
\* boolean cancelRequest returned, and it starts no operation.
StartsOrCancels(call) ==
    call.bound /\ (call.kind # "sync" \/ FuncOf(call) = Str("cancelRequest"))

C18_Step ==
    /\ \A c \in NewCalls : ~StartsOrCancels(calls'[c])
    /\ \A c \in Calls : ~Completes(c)
    => ongoingRequests' = ongoingRequests

C18_CancelBypassesAgent ==
    \A c \in Calls :
        IsCancelRequest(calls[c]) /\ RequestTarget(c) # Thrown
        => /\ calls[c].kind = "sync" /\ calls[c].pst = "none"
           /\ calls[c].data \in {Bool(TRUE), Bool(FALSE)}

C18_RegistryFrame == [][C18_Step]_vars /\ []C18_CancelBypassesAgent

C18_Witness ==
    \E c1, c2 \in Calls :
        /\ c1 < c2 /\ calls[c1].pst = "pending" /\ Holds(c1)
        /\ Unsuspended(c2) /\ RequestFunc(c2) # Str("cancelRequest")
        /\ \E i \in Answers(c2), j \in 1..Len(out) : i < j /\ out[j].src = 0
        /\ jobs = << >>

\* C19: the completion of a request removes only the entry that request
\* inserted.  When request A, suspended on a promise that cannot be
\* cancelled, was untracked by a cancelRequest, and a request B using the
\* same id has been dispatched since and is pending, the completion of A
\* leaves the entry of B in place: right after it a cancelRequest for the
\* id still returns true and untracks B.
StateAfter ==
    [buffer |-> buffer', reg |-> ongoingRequests', agent |-> agent', calls |-> calls',
     jobs |-> jobs', settled |-> settled']

CancelOf(id) == Arr(<< Num(3), Obj(Str("cancelRequest"), Arr(<< id >>)) >>)

C19_Step ==
    \A A, B \in Calls :
        /\ A # B /\ calls[A].id = calls[B].id
        /\ calls[A].kind = "promise" /\ calls[A].cancelled /\ Completes(A)
        /\ TrackedPending(B)
        => /\ Ongoing(ongoingRequests', calls[B].id) = B
           /\ LET r == cancelRequest(StateAfter, CancelOf(calls[B].id))
              IN  r.ret = Bool(TRUE) /\ r.st.calls[B].cancelled

C19_CompletionRemovesOwnEntryOnly == [][C19_Step]_vars

\* C20: a line written with id 0 is an event notification or the answer
\* to a request handled while no agent was bound: whatever id the peer
\* chooses for a request, 0 included, the response to a request handled
\* with an agent bound never carries the id 0.
C20_IdZeroIsNeverAReply ==
    \A i \in 1..Len(out) :
        Index(Wire(i), 0) = Num(0)
            => out[i].src = 0 \/ ~calls[out[i].src].bound

====
